---------------------------- MODULE Spec2Model ----------------------------
(***************************************************************************)
(* A model of the trip-night CHIP-8 virtual machine: the opcode bit        *)
(* fields, the decoder, the instruction table, the instruction semantics,  *)
(* the bit-packed screen and the Machine's cycle() with its timers.        *)
(*                                                                         *)
(* Representation choices:                                                 *)
(*  - a u64 screen row is the set of the columns whose bit is set; column  *)
(*    c is bit 63 - c of the row (the most significant bit is column 0);   *)
(*  - the 4096-byte ram is stored as the bytes State::new copied into it  *)
(*    (no instruction of the set writes memory); every other byte is 0;    *)
(*  - a Rust panic is recorded in the variable panic; the fields keep the  *)
(*    values they had when the panic was raised, and no cycle follows;     *)
(*  - the Cargo profile decides whether integer overflow panics and        *)
(*    whether debug_assert_eq! is compiled in; it is drawn in Init.        *)
(***************************************************************************)
EXTENDS Integers, Sequences, FiniteSets, TLC

VARIABLES
    state,            \* Machine.state : State
    instruction_set,  \* Machine.instruction_set : [&dyn Instruction; 34]
    frequency_hz,     \* Machine.frequency_hz
    counter,          \* Machine.counter
    profile,          \* the Cargo profile the crate was built with
    panic,            \* "none", or the panic that ended the program
    opcode,           \* the OpCode last fetched / handed to the decoder (-1: none yet)
    decoded,          \* what decode_instruction last returned (slot -2: nothing decoded yet)
    call_log,         \* history: the Calls executed and not yet returned from, oldest first
    host              \* the host program: its last direct call on the screen and what
                      \* it returned, the ScreenIter it holds, its random-byte source

vars == <<state, instruction_set, frequency_hz, counter, profile, panic, opcode,
          decoded, call_log, host>>

-----------------------------------------------------------------------------
(* Bounds of the model *)

\* cycle() is not called more than MaxCycles times (Machine.counter is a usize).
MaxCycles == 18
\* Program images are built from at most ProgLen instruction words of Pool.
ProgLen == 2

-----------------------------------------------------------------------------
(* Program constants *)

RAM_SIZE == 4096
STACK_SIZE == 16
NB_REGISTERS == 16
NB_SLOTS == 34
SCREEN_ROWS == 32
SCREEN_COLS == 64
FONT_START == 80
PROGRAM_START == 512
TIMER_HZ == 60
CLOCK_FREQUENCY == 700
RANDOM_NUMBER == 122
VF == 15
V0 == 0

U8 == 256
U16 == 65536
Byte == 0 .. 255

Profiles == {"debug", "release"}
\* overflow-checks and debug-assertions are on in the dev profile, off in release
overflow_checks == profile = "debug"
debug_assertions == profile = "debug"

-----------------------------------------------------------------------------
(* u8 bit operations *)

Pow2(n) == 2 ^ n
Bit(v, i) == (v \div Pow2(i)) % 2
\* the positions (0 = least significant) of the bits set in a byte
Bits(v) == {i \in 0 .. 7 : Bit(v, i) = 1}

RECURSIVE FromBits(_)
FromBits(S) ==
    IF S = {} THEN 0
    ELSE LET i == CHOOSE j \in S : TRUE IN Pow2(i) + FromBits(S \ {i})

u8_or(a, b)  == FromBits(Bits(a) \cup Bits(b))
u8_and(a, b) == FromBits(Bits(a) \cap Bits(b))
u8_xor(a, b) == FromBits((Bits(a) \ Bits(b)) \cup (Bits(b) \ Bits(a)))

-----------------------------------------------------------------------------
(* OpCode: the bit fields of a 16-bit instruction word *)

get_inner(op) == op
get_first_nibble(op) == op \div 4096
get_x(op) == (op \div 256) % 16
get_y(op) == (op \div 16) % 16
get_n(op) == op % 16
get_nn(op) == op % 256
get_nnn(op) == op % 4096

-----------------------------------------------------------------------------
(* The slots of an InstructionSet *)

OP_00E0 == 0
OP_00EE == 1
OP_1NNN == 2
OP_2NNN == 3
OP_3XNN == 4
OP_4XNN == 5
OP_5XY0 == 6
OP_6XNN == 7
OP_7XNN == 8
OP_8XY0 == 9
OP_8XY1 == 10
OP_8XY2 == 11
OP_8XY3 == 12
OP_8XY4 == 13
OP_8XY5 == 14
OP_8XY6 == 15
OP_8XY7 == 16
OP_8XYE == 17
OP_9XY0 == 18
OP_ANNN == 19
OP_BNNN == 20
OP_CXNN == 21
OP_DXYN == 22
OP_EX9E == 23
OP_EXA1 == 24
OP_FX07 == 25
OP_FX0A == 26
OP_FX15 == 27
OP_FX18 == 28
OP_FX1E == 29
OP_FX29 == 30
OP_FX33 == 31
OP_FX55 == 32
OP_FX65 == 33

Slots == 0 .. NB_SLOTS - 1

-----------------------------------------------------------------------------
(* decode_instruction *)

\* Err(UnknownInstructionError), as a slot number
UnknownInstructionError == -1

\* the index decode_instruction reads the set at, or UnknownInstructionError
decode_slot(op) ==
    LET nibble == get_first_nibble(op) IN
    CASE nibble = 0 ->
            (CASE get_inner(op) = 224 -> OP_00E0
               [] get_inner(op) = 238 -> OP_00EE
               [] OTHER -> UnknownInstructionError)
      [] nibble = 1 -> OP_1NNN
      [] nibble = 2 -> OP_2NNN
      [] nibble = 3 -> OP_3XNN
      [] nibble = 4 -> OP_4XNN
      [] nibble = 5 -> OP_5XY0
      [] nibble = 6 -> OP_6XNN
      [] nibble = 7 -> OP_7XNN
      [] nibble = 8 ->
            (CASE get_n(op) = 0 -> OP_8XY0
               [] get_n(op) = 1 -> OP_8XY1
               [] get_n(op) = 2 -> OP_8XY2
               [] get_n(op) = 3 -> OP_8XY3
               [] get_n(op) = 4 -> OP_8XY4
               [] get_n(op) = 5 -> OP_8XY5
               [] get_n(op) = 6 -> OP_8XY6
               [] get_n(op) = 7 -> OP_8XY7
               [] get_n(op) = 14 -> OP_8XYE
               [] OTHER -> UnknownInstructionError)
      [] nibble = 9 -> OP_9XY0
      [] nibble = 10 -> OP_ANNN
      [] nibble = 11 -> OP_BNNN
      [] nibble = 12 -> OP_CXNN
      [] nibble = 13 -> OP_DXYN
      [] nibble = 14 ->
            (CASE get_nn(op) = 158 -> OP_EX9E
               [] get_nn(op) = 161 -> OP_EXA1
               [] OTHER -> UnknownInstructionError)
      [] nibble = 15 ->
            (CASE get_nn(op) = 7 -> OP_FX07
               [] get_nn(op) = 10 -> OP_FX0A
               [] get_nn(op) = 21 -> OP_FX15
               [] get_nn(op) = 24 -> OP_FX18
               [] get_nn(op) = 30 -> OP_FX1E
               [] get_nn(op) = 41 -> OP_FX29
               [] get_nn(op) = 51 -> OP_FX33
               [] get_nn(op) = 85 -> OP_FX55
               [] get_nn(op) = 101 -> OP_FX65
               [] OTHER -> UnknownInstructionError)

\* Result<&dyn Instruction, UnknownInstructionError>: the slot read and the
\* instruction found in it
decode_instruction(set, op) ==
    LET slot == decode_slot(op) IN
    IF slot = UnknownInstructionError
    THEN [ok |-> FALSE, slot |-> UnknownInstructionError, instruction |-> "none"]
    ELSE [ok |-> TRUE, slot |-> slot, instruction |-> set[slot]]

NotDecoded == [ok |-> FALSE, slot |-> -2, instruction |-> "none"]

-----------------------------------------------------------------------------
(* Screen: 32 rows of 64 pixels and the changed flag *)

Rows == 0 .. SCREEN_ROWS - 1
Cols == 0 .. SCREEN_COLS - 1
MSB_ONLY == 128

\* Screen::default()
Screen_default == [inner |-> [y \in Rows |-> {}], changed |-> FALSE]

\* (x & 0x3F, y & 0x1F)
clamp(x, y) == [x |-> x % SCREEN_COLS, y |-> y % SCREEN_ROWS]

\* mutant: rotate_right in place of overflowing_shr: what passes column 63
\* comes back at column 0
generate_mask_rotating(vector, x) ==
    {c \in Cols : \E i \in Bits(vector) : c = ((7 - i) + (x % SCREEN_COLS)) % SCREEN_COLS}

\* u64::from_be_bytes([vector, 0, ..]).overflowing_shr(x).0 : bit 7 of the
\* vector is column 0; the shift moves every column right by x (the shift
\* amount of overflowing_shr is taken modulo 64) and drops what passes column 63
generate_mask(vector, x) ==
    {c \in Cols : \E i \in Bits(vector) : c = (7 - i) + (x % SCREEN_COLS)}

\* mutant: the rows are zeroed but the change is not recorded
Screen_clear_unrecorded(screen) == [inner |-> [y \in Rows |-> {}], changed |-> screen.changed]

Screen_clear(screen) == [inner |-> [y \in Rows |-> {}], changed |-> TRUE]

\* mutant: the flag is left as the earlier cycle set it
reset_changed_flag_kept(screen) == screen

reset_changed_flag(screen) == [screen EXCEPT !.changed = FALSE]

is_changed(screen) == screen.changed

\* mutant: the overlap is judged on the row after the XOR
flip_vectored_judged_after(screen, vector, x, y) ==
    LET c == clamp(x, y)
        mask == generate_mask(vector, c.x)
        row == screen.inner[c.y]
        flipped == (row \ mask) \cup (mask \ row)
        no_overlap == (flipped \cap mask) = {}
    IN [screen |-> [inner |-> [screen.inner EXCEPT ![c.y] = flipped],
                    changed |-> TRUE],
        result |-> IF no_overlap THEN "NoUnsetBit" ELSE "UnsetBit"]

\* mutant: the sprite is painted over the row (|=) instead of flipped
flip_vectored_painted(screen, vector, x, y) ==
    LET c == clamp(x, y)
        mask == generate_mask(vector, c.x)
        row == screen.inner[c.y]
        no_overlap == (row \cap mask) = {}
    IN [screen |-> [inner |-> [screen.inner EXCEPT ![c.y] = row \cup mask],
                    changed |-> TRUE],
        result |-> IF no_overlap THEN "NoUnsetBit" ELSE "UnsetBit"]

\* returns the screen and the FlipResult
flip_vectored(screen, vector, x, y) ==
    LET c == clamp(x, y)
        mask == generate_mask(vector, c.x)
        row == screen.inner[c.y]
        no_overlap == (row \cap mask) = {}
    IN [screen |-> [inner |-> [screen.inner EXCEPT ![c.y] = (row \ mask) \cup (mask \ row)],
                    changed |-> TRUE],
        result |-> IF no_overlap THEN "NoUnsetBit" ELSE "UnsetBit"]

get_pixel(screen, x, y) ==
    LET c == clamp(x, y)
        mask == generate_mask(MSB_ONLY, c.x)
    IN IF (screen.inner[c.y] \cap mask) = {} THEN "Unset" ELSE "Set"

set_vectored(screen, vector, x, y) ==
    LET c == clamp(x, y)
        mask == generate_mask(vector, c.x)
    IN [inner |-> [screen.inner EXCEPT ![c.y] = @ \cup mask], changed |-> TRUE]

\* self.inner[y] &= mask: the row keeps the pixels of the mask only
unset_vectored(screen, vector, x, y) ==
    LET c == clamp(x, y)
        mask == generate_mask(vector, c.x)
    IN [inner |-> [screen.inner EXCEPT ![c.y] = @ \cap mask], changed |-> TRUE]

set_pixel(screen, x, y) == set_vectored(screen, MSB_ONLY, x, y)

unset_pixel(screen, x, y) == unset_vectored(screen, MSB_ONLY, x, y)

flip_pixel(screen, x, y) == flip_vectored(screen, MSB_ONLY, x, y)

\* row >> n on a u64 held as its set of columns: every column moves right by
\* n and what passes column 63 is dropped
u64_shr(row, n) == {c \in Cols : c - n \in row}

\* u8::try_from of a u64 held as its set of columns: the value, or -1 when a
\* bit above bit 7 (a column left of 56) is set
u8_try_from(row) ==
    IF \E c \in row : c < SCREEN_COLS - 8
    THEN -1
    ELSE FromBits({SCREEN_COLS - 1 - c : c \in row})

\* Screen::get_vectored: the byte returned and the panic raised, if any.
\* 56 - x is computed on u8: for x > 56 it panics with overflow checks and
\* wraps to 312 - x without; the shift amount of >> is then taken modulo 64
get_vectored(screen, x, y) ==
    LET c == clamp(x, y)
        mask == generate_mask(255, c.x)
        masked == screen.inner[c.y] \cap mask
    IN IF c.x > SCREEN_COLS - 8 /\ overflow_checks
       THEN [value |-> -1, panic |-> "attempt to subtract with overflow"]
       ELSE LET amount == IF c.x > SCREEN_COLS - 8
                          THEN ((SCREEN_COLS - 8 - c.x) % U8) % SCREEN_COLS
                          ELSE SCREEN_COLS - 8 - c.x
                byte == u8_try_from(u64_shr(masked, amount))
            IN IF byte = -1
               THEN [value |-> -1, panic |-> "unwrap on Err(TryFromIntError)"]
               ELSE [value |-> byte, panic |-> "none"]

\* Screen::iter: a ScreenIter at (0, 0)
Screen_iter(screen) == [x |-> 0, y |-> 0]

\* mutant: the column is not reset at the end of a row
ScreenIter_next_no_wrap(screen, it) ==
    LET at == IF it.x >= SCREEN_COLS THEN [x |-> it.x, y |-> it.y + 1] ELSE it
    IN IF at.y >= SCREEN_ROWS
       THEN [iter |-> at, item |-> << >>]
       ELSE [iter |-> [at EXCEPT !.x = @ + 1],
             item |-> <<at.x, at.y, get_pixel(screen, at.x, at.y)>>]

\* ScreenIter::next: the iterator afterwards and the item, << >> for None
ScreenIter_next(screen, it) ==
    LET at == IF it.x >= SCREEN_COLS THEN [x |-> 0, y |-> it.y + 1] ELSE it
    IN IF at.y >= SCREEN_ROWS
       THEN [iter |-> at, item |-> << >>]
       ELSE [iter |-> [at EXCEPT !.x = @ + 1],
             item |-> <<at.x, at.y, get_pixel(screen, at.x, at.y)>>]

-----------------------------------------------------------------------------
(* State *)

Addresses == 0 .. RAM_SIZE - 1
StackSlots == 0 .. STACK_SIZE - 1
Registers == 0 .. NB_REGISTERS - 1

\* font::STANDARD: 16 glyphs of 5 bytes
font_STANDARD ==
    << 240, 144, 144, 144, 240,   32,  96,  32,  32, 112,
       240,  16, 240, 128, 240,  240,  16, 240,  16, 240,
       144, 144, 240,  16,  16,  240, 128, 240,  16, 240,
       240, 128, 240, 144, 240,  240,  16,  32,  64,  64,
       240, 144, 240, 144, 240,  240, 144, 240,  16, 240,
       240, 144, 240, 144, 144,  224, 144, 224, 144, 224,
       240, 128, 128, 128, 240,  224, 144, 144, 144, 224,
       240, 128, 240, 128, 240,  240, 128, 240, 128, 128 >>

\* let mut ram = [0; 4096]: ram is stored as the bytes copied into it; every
\* address outside the stored domain still holds the 0 it was created with
ram_zeroed == [a \in {} |-> 0]

\* ram[a], for an address in 0 .. 4095
ram_at(ram, a) == IF a \in DOMAIN ram THEN ram[a] ELSE 0

\* ram[start .. start + slice.len()].copy_from_slice(slice)
copy_from_slice(ram, start, slice) ==
    [a \in DOMAIN ram \cup (start .. start + Len(slice) - 1) |->
        IF a >= start /\ a < start + Len(slice) THEN slice[a - start + 1] ELSE ram[a]]

\* the memory with the font copied in
ram_with_font == copy_from_slice(ram_zeroed, FONT_START, font_STANDARD)

\* mutant: the program image is not copied into the memory
State_new_unloaded(game_code) ==
    [ram |-> ram_with_font,
     pc |-> PROGRAM_START,
     index |-> 0,
     stack |-> [i \in StackSlots |-> 0],
     stack_pointer |-> 0,
     delay_timer |-> 0,
     sound_timer |-> 0,
     registers |-> [r \in Registers |-> 0],
     screen |-> Screen_default]

\* State::new(game_code); game_code is a sequence of bytes
State_new(game_code) ==
    [ram |-> copy_from_slice(ram_with_font, PROGRAM_START, game_code),
     pc |-> PROGRAM_START,
     index |-> 0,
     stack |-> [i \in StackSlots |-> 0],
     stack_pointer |-> 0,
     delay_timer |-> 0,
     sound_timer |-> 0,
     registers |-> [r \in Registers |-> 0],
     screen |-> Screen_default]

\* the outcome of an operation on the State: the State it leaves and the
\* panic it raised, if any
Done(st) == [st |-> st, panic |-> "none"]
Panicked(st, msg) == [st |-> st, panic |-> msg]

reg_write(st, reg, value) == [st EXCEPT !.registers[reg] = value]
reg_read(st, reg) == st.registers[reg]

\* mutant: the slot index wraps around instead of being bounds-checked
stack_push_wrapping(st, value) ==
    Done([st EXCEPT !.stack[st.stack_pointer % STACK_SIZE] = value,
                    !.stack_pointer = st.stack_pointer + 1])

\* self.stack[sp] = value; self.stack_pointer += 1
stack_push(st, value) ==
    IF st.stack_pointer >= STACK_SIZE
    THEN Panicked(st, "index out of bounds")
    ELSE Done([st EXCEPT !.stack[st.stack_pointer] = value,
                         !.stack_pointer = st.stack_pointer + 1])

\* mutant: the slot is read before the stack pointer is decremented
stack_pop_stale(st) ==
    IF st.stack_pointer = 0 /\ overflow_checks
    THEN [st |-> st, panic |-> "attempt to subtract with overflow", value |-> 0]
    ELSE LET sp == (st.stack_pointer - 1) % U8
             s1 == [st EXCEPT !.stack_pointer = sp]
         IN IF sp >= STACK_SIZE
            THEN [st |-> s1, panic |-> "index out of bounds", value |-> 0]
            ELSE [st |-> s1, panic |-> "none", value |-> s1.stack[(sp + 1) % STACK_SIZE]]

\* self.stack_pointer -= 1; self.stack[sp]: the outcome and the Address popped
stack_pop(st) ==
    IF st.stack_pointer = 0 /\ overflow_checks
    THEN [st |-> st, panic |-> "attempt to subtract with overflow", value |-> 0]
    ELSE LET sp == (st.stack_pointer - 1) % U8
             s1 == [st EXCEPT !.stack_pointer = sp]
         IN IF sp >= STACK_SIZE
            THEN [st |-> s1, panic |-> "index out of bounds", value |-> 0]
            ELSE [st |-> s1, panic |-> "none", value |-> s1.stack[sp]]

-----------------------------------------------------------------------------
(* The instructions: X_execute(op, st) is X::execute(X::decode(op), st) *)

\* the default of make_nop_set
Nop_execute(op, st) == Done(st)

ClearScreen_execute(op, st) == Done([st EXCEPT !.screen = Screen_clear(st.screen)])

RECURSIVE Draw_rows(_, _, _, _, _, _, _)
\* the loop of Draw::execute from row i on; unset_bit is the flag so far
Draw_rows(st, x, y, start, height, i, unset_bit) ==
    IF i >= height
    THEN [st |-> st, panic |-> "none", unset_bit |-> unset_bit]
    ELSE IF y + i >= U8 /\ overflow_checks
    THEN [st |-> st, panic |-> "attempt to add with overflow", unset_bit |-> unset_bit]
    ELSE LET f == flip_vectored(st.screen, ram_at(st.ram, start + i), x, (y + i) % U8)
         IN Draw_rows([st EXCEPT !.screen = f.screen], x, y, start, height, i + 1,
                      unset_bit \/ f.result = "UnsetBit")

\* mutant: the sprite is clipped at the end of the memory instead of panicking
Draw_execute_clipped(op, st) ==
    LET x == reg_read(st, get_x(op))
        y == reg_read(st, get_y(op))
        start == st.index
        height == IF start + get_n(op) > RAM_SIZE THEN RAM_SIZE - start ELSE get_n(op)
        r == Draw_rows(st, x, y, start, height, 0, FALSE)
    IN IF r.panic # "none"
       THEN Panicked(r.st, r.panic)
       ELSE Done(reg_write(r.st, VF, IF r.unset_bit THEN 1 ELSE 0))

Draw_execute(op, st) ==
    LET x == reg_read(st, get_x(op))
        y == reg_read(st, get_y(op))
        height == get_n(op)
        start == st.index
        end == start + height
    IN IF end > RAM_SIZE
       THEN Panicked(st, "range end index out of range for slice")
       ELSE LET r == Draw_rows(st, x, y, start, height, 0, FALSE)
            IN IF r.panic # "none"
               THEN Panicked(r.st, r.panic)
               ELSE Done(reg_write(r.st, VF, IF r.unset_bit THEN 1 ELSE 0))

Ret_execute(op, st) ==
    LET p == stack_pop(st)
    IN IF p.panic # "none"
       THEN Panicked(p.st, p.panic)
       ELSE Done([p.st EXCEPT !.pc = p.value])

Jump_execute(op, st) == Done([st EXCEPT !.pc = get_nnn(op)])

Call_execute(op, st) ==
    LET p == stack_push(st, st.pc)
    IN IF p.panic # "none"
       THEN p
       ELSE Done([p.st EXCEPT !.pc = get_nnn(op)])

\* mutant: the skip passes one byte only
pc_skip_one_byte(st) == Done([st EXCEPT !.pc = (st.pc + 1) % U16])

\* state.pc += 2 (an u16 addition)
pc_skip(st) ==
    IF st.pc + 2 >= U16 /\ overflow_checks
    THEN Panicked(st, "attempt to add with overflow")
    ELSE Done([st EXCEPT !.pc = (st.pc + 2) % U16])

SkipEqConst_execute(op, st) ==
    IF reg_read(st, get_x(op)) = get_nn(op) THEN pc_skip(st) ELSE Done(st)

SkipNeqConst_execute(op, st) ==
    IF reg_read(st, get_x(op)) # get_nn(op) THEN pc_skip(st) ELSE Done(st)

SkipEq_execute(op, st) ==
    IF reg_read(st, get_x(op)) = reg_read(st, get_y(op)) THEN pc_skip(st) ELSE Done(st)

SkipNeq_execute(op, st) ==
    IF reg_read(st, get_x(op)) # reg_read(st, get_y(op)) THEN pc_skip(st) ELSE Done(st)

JumpOffset_execute(op, st) ==
    Done([st EXCEPT !.pc = get_nnn(op) + reg_read(st, V0)])

Set_execute(op, st) == Done(reg_write(st, get_x(op), get_nn(op)))

\* lhs.wrapping_add(rhs)
AddConst_execute(op, st) ==
    Done(reg_write(st, get_x(op), (reg_read(st, get_x(op)) + get_nn(op)) % U8))

Assign_execute(op, st) == Done(reg_write(st, get_x(op), reg_read(st, get_y(op))))

BitOr_execute(op, st) ==
    Done(reg_write(st, get_x(op), u8_or(reg_read(st, get_x(op)), reg_read(st, get_y(op)))))

BitAnd_execute(op, st) ==
    Done(reg_write(st, get_x(op), u8_and(reg_read(st, get_x(op)), reg_read(st, get_y(op)))))

BitXor_execute(op, st) ==
    Done(reg_write(st, get_x(op), u8_xor(reg_read(st, get_x(op)), reg_read(st, get_y(op)))))

\* mutant: the carry is missed when the sum is exactly 256
overflowing_add_strict(a, b) == [value |-> (a + b) % U8, overflowed |-> a + b > U8]

\* u8::overflowing_add, overflowing_sub: the wrapped result and whether it wrapped
overflowing_add(a, b) == [value |-> (a + b) % U8, overflowed |-> a + b >= U8]
overflowing_sub(a, b) == [value |-> (a - b) % U8, overflowed |-> a < b]
\* u8::overflowing_shr, overflowing_shl: the flag tells whether the shift
\* amount reached the bit width (8), not whether a bit was shifted out
overflowing_shr(a, n) == [value |-> a \div Pow2(n % 8), overflowed |-> n >= 8]
overflowing_shl(a, n) == [value |-> (a * Pow2(n % 8)) % U8, overflowed |-> n >= 8]

\* the flag register is written first, the left register after it
Add_execute(op, st) ==
    LET lhs == reg_read(st, get_x(op))
        rhs == reg_read(st, get_y(op))
        r == overflowing_add(lhs, rhs)
        s1 == reg_write(st, VF, IF r.overflowed THEN 1 ELSE 0)
    IN Done(reg_write(s1, get_x(op), r.value))

\* mutant: the flag has the polarity of a borrow flag
Sub_execute_borrow_flag(op, st) ==
    LET lhs == reg_read(st, get_x(op))
        rhs == reg_read(st, get_y(op))
        r == overflowing_sub(lhs, rhs)
        s1 == reg_write(st, VF, IF r.overflowed THEN 1 ELSE 0)
    IN Done(reg_write(s1, get_x(op), r.value))

Sub_execute(op, st) ==
    LET lhs == reg_read(st, get_x(op))
        rhs == reg_read(st, get_y(op))
        r == overflowing_sub(lhs, rhs)
        s1 == reg_write(st, VF, IF r.overflowed THEN 0 ELSE 1)
    IN Done(reg_write(s1, get_x(op), r.value))

SubN_execute(op, st) ==
    LET lhs == reg_read(st, get_x(op))
        rhs == reg_read(st, get_y(op))
        r == overflowing_sub(rhs, lhs)
        s1 == reg_write(st, VF, IF r.overflowed THEN 1 ELSE 0)
    IN Done(reg_write(s1, get_x(op), r.value))

ShiftRight_execute(op, st) ==
    LET lhs == reg_read(st, get_x(op))
        r == overflowing_shr(lhs, 1)
        s1 == reg_write(st, VF, IF r.overflowed THEN 1 ELSE 0)
    IN Done(reg_write(s1, get_x(op), r.value))

ShiftRightLegacy_execute(op, st) ==
    LET rhs == reg_read(st, get_y(op))
        r == overflowing_shr(rhs, 1)
        s1 == reg_write(st, VF, IF r.overflowed THEN 1 ELSE 0)
    IN Done(reg_write(s1, get_x(op), r.value))

ShiftLeft_execute(op, st) ==
    LET lhs == reg_read(st, get_x(op))
        r == overflowing_shl(lhs, 1)
        s1 == reg_write(st, VF, IF r.overflowed THEN 1 ELSE 0)
    IN Done(reg_write(s1, get_x(op), r.value))

ShiftLeftLegacy_execute(op, st) ==
    LET rhs == reg_read(st, get_y(op))
        r == overflowing_shl(rhs, 1)
        s1 == reg_write(st, VF, IF r.overflowed THEN 1 ELSE 0)
    IN Done(reg_write(s1, get_x(op), r.value))

Random_execute(op, st) ==
    Done(reg_write(st, get_x(op), u8_and(RANDOM_NUMBER, get_nn(op))))

SetIndex_execute(op, st) == Done([st EXCEPT !.index = get_nnn(op)])

-----------------------------------------------------------------------------
(* The instruction sets *)

make_nop_set == [slot \in Slots |-> "Nop"]

make_standard_set ==
    [make_nop_set EXCEPT
        ![OP_00E0] = "ClearScreen",
        ![OP_00EE] = "Ret",
        ![OP_1NNN] = "Jump",
        ![OP_2NNN] = "Call",
        ![OP_3XNN] = "SkipEqConst",
        ![OP_4XNN] = "SkipNeqConst",
        ![OP_5XY0] = "SkipEq",
        ![OP_6XNN] = "Set",
        ![OP_7XNN] = "AddConst",
        ![OP_8XY0] = "Assign",
        ![OP_8XY1] = "BitOr",
        ![OP_8XY2] = "BitAnd",
        ![OP_8XY3] = "BitXor",
        ![OP_8XY4] = "Add",
        ![OP_8XY5] = "Sub",
        ![OP_8XY6] = "ShiftRight",
        ![OP_8XY7] = "SubN",
        ![OP_8XYE] = "ShiftLeft",
        ![OP_9XY0] = "SkipNeq",
        ![OP_ANNN] = "SetIndex",
        ![OP_BNNN] = "JumpOffset",
        ![OP_CXNN] = "Random",
        ![OP_DXYN] = "Draw"]

\* mutant: the legacy assembly overrides the SubN slot as well
make_legacy_set_three_slots ==
    [make_standard_set EXCEPT
        ![OP_8XY6] = "ShiftRightLegacy",
        ![OP_8XYE] = "ShiftLeftLegacy",
        ![OP_8XY7] = "Sub"]

make_legacy_set ==
    [make_standard_set EXCEPT
        ![OP_8XY6] = "ShiftRightLegacy",
        ![OP_8XYE] = "ShiftLeftLegacy"]

InstructionSets == {make_standard_set, make_legacy_set}

\* the debug_assert_eq! lines of X::decode: TRUE when they all pass
decode_asserts(instruction, op) ==
    LET family(f) == get_first_nibble(op) = f
        sub(f, n) == get_first_nibble(op) = f /\ get_n(op) = n
    IN CASE instruction = "ClearScreen" -> get_inner(op) = 224
         [] instruction = "Ret" -> get_inner(op) = 238
         [] instruction = "Jump" -> family(1)
         [] instruction = "Call" -> family(2)
         [] instruction = "SkipEqConst" -> family(3)
         [] instruction = "SkipNeqConst" -> family(4)
         [] instruction = "SkipEq" -> sub(5, 0)
         [] instruction = "Set" -> family(6)
         [] instruction = "AddConst" -> family(7)
         [] instruction = "Assign" -> sub(8, 0)
         [] instruction = "BitOr" -> sub(8, 1)
         [] instruction = "BitAnd" -> sub(8, 2)
         [] instruction = "BitXor" -> sub(8, 3)
         [] instruction = "Add" -> sub(8, 4)
         [] instruction = "Sub" -> sub(8, 5)
         [] instruction = "ShiftRight" -> sub(8, 6)
         [] instruction = "ShiftRightLegacy" -> sub(8, 6)
         [] instruction = "SubN" -> sub(8, 7)
         [] instruction = "ShiftLeft" -> sub(8, 6)
         [] instruction = "ShiftLeftLegacy" -> sub(8, 6)
         [] instruction = "SkipNeq" -> sub(9, 0)
         [] instruction = "SetIndex" -> family(10)
         [] instruction = "JumpOffset" -> family(11)
         [] instruction = "Random" -> family(12)
         [] instruction = "Draw" -> family(13)
         [] OTHER -> TRUE

instruction_execute(instruction, op, st) ==
    CASE instruction = "ClearScreen" -> ClearScreen_execute(op, st)
      [] instruction = "Ret" -> Ret_execute(op, st)
      [] instruction = "Jump" -> Jump_execute(op, st)
      [] instruction = "Call" -> Call_execute(op, st)
      [] instruction = "SkipEqConst" -> SkipEqConst_execute(op, st)
      [] instruction = "SkipNeqConst" -> SkipNeqConst_execute(op, st)
      [] instruction = "SkipEq" -> SkipEq_execute(op, st)
      [] instruction = "Set" -> Set_execute(op, st)
      [] instruction = "AddConst" -> AddConst_execute(op, st)
      [] instruction = "Assign" -> Assign_execute(op, st)
      [] instruction = "BitOr" -> BitOr_execute(op, st)
      [] instruction = "BitAnd" -> BitAnd_execute(op, st)
      [] instruction = "BitXor" -> BitXor_execute(op, st)
      [] instruction = "Add" -> Add_execute(op, st)
      [] instruction = "Sub" -> Sub_execute(op, st)
      [] instruction = "ShiftRight" -> ShiftRight_execute(op, st)
      [] instruction = "ShiftRightLegacy" -> ShiftRightLegacy_execute(op, st)
      [] instruction = "SubN" -> SubN_execute(op, st)
      [] instruction = "ShiftLeft" -> ShiftLeft_execute(op, st)
      [] instruction = "ShiftLeftLegacy" -> ShiftLeftLegacy_execute(op, st)
      [] instruction = "SkipNeq" -> SkipNeq_execute(op, st)
      [] instruction = "SetIndex" -> SetIndex_execute(op, st)
      [] instruction = "JumpOffset" -> JumpOffset_execute(op, st)
      [] instruction = "Random" -> Random_execute(op, st)
      [] instruction = "Draw" -> Draw_execute(op, st)
      [] OTHER -> Nop_execute(op, st)

\* the wrapper make_instruction! generates: decode the operands, then execute
wrapper(instruction, op, st) ==
    IF debug_assertions /\ ~decode_asserts(instruction, op)
    THEN Panicked(st, "assertion failed")
    ELSE instruction_execute(instruction, op, st)

-----------------------------------------------------------------------------
(* Machine *)

\* mutant: wrapping_sub in place of saturating_sub
update_counter_wrapping(st, c) ==
    LET modulus == IF frequency_hz \div TIMER_HZ > 1 THEN frequency_hz \div TIMER_HZ ELSE 1
    IN IF c % modulus = 0
       THEN [st EXCEPT !.delay_timer = (@ - 1) % U8,
                       !.sound_timer = (@ - 1) % U8]
       ELSE st

\* mutant: the counter is tested as it was before the increment
update_counter_tested_first(st, c) ==
    LET modulus == IF frequency_hz \div TIMER_HZ > 1 THEN frequency_hz \div TIMER_HZ ELSE 1
    IN IF (c - 1) % modulus = 0
       THEN [st EXCEPT !.delay_timer = IF @ > 0 THEN @ - 1 ELSE 0,
                       !.sound_timer = IF @ > 0 THEN @ - 1 ELSE 0]
       ELSE st

\* the timers after Machine::update_counter, the counter being already
\* incremented to c
update_counter(st, c) ==
    LET modulus == IF frequency_hz \div TIMER_HZ > 1 THEN frequency_hz \div TIMER_HZ ELSE 1
    IN IF c % modulus = 0
       THEN [st EXCEPT !.delay_timer = IF @ > 0 THEN @ - 1 ELSE 0,
                       !.sound_timer = IF @ > 0 THEN @ - 1 ELSE 0]
       ELSE st

\* mutant: the two bytes are assembled little-endian
fetch_opcode_little_endian(st) ==
    IF st.pc >= RAM_SIZE \/ st.pc + 1 >= RAM_SIZE
    THEN [st |-> st, panic |-> "index out of bounds", op |-> -1]
    ELSE [st |-> [st EXCEPT !.pc = st.pc + 2],
          panic |-> "none",
          op |-> ram_at(st.ram, st.pc + 1) * 256 + ram_at(st.ram, st.pc)]

\* Machine::fetch_opcode: the outcome and the word read
fetch_opcode(st) ==
    IF st.pc >= RAM_SIZE \/ st.pc + 1 >= RAM_SIZE
    THEN [st |-> st, panic |-> "index out of bounds", op |-> -1]
    ELSE [st |-> [st EXCEPT !.pc = st.pc + 2],
          panic |-> "none",
          op |-> ram_at(st.ram, st.pc) * 256 + ram_at(st.ram, st.pc + 1)]

\* Machine::cycle of a machine whose instruction set is set, from the State st
\* with the counter already at c: the outcome, the word fetched and what the
\* decoder returned
cycle_with(set, st, c) ==
    LET s1 == update_counter(st, c)
        s2 == [s1 EXCEPT !.screen = reset_changed_flag(s1.screen)]
        f == fetch_opcode(s2)
    IN IF f.panic # "none"
       THEN [st |-> f.st, panic |-> f.panic, op |-> opcode, decoded |-> decoded]
       ELSE LET d == decode_instruction(set, f.op)
            IN IF ~d.ok
               THEN [st |-> f.st, panic |-> "unwrap on Err(UnknownInstructionError)",
                     op |-> f.op, decoded |-> d]
               ELSE LET e == wrapper(d.instruction, f.op, f.st)
                    IN [st |-> e.st, panic |-> e.panic, op |-> f.op, decoded |-> d]

\* Machine::cycle of this machine
cycle(st, c) == cycle_with(instruction_set, st, c)

is_beeping == state.sound_timer > 0

\* what a call returned: the type of the value and the value
Returned(kind, value) == [kind |-> kind, value |-> value]
NothingReturned == Returned("nothing", "nothing")

\* no ScreenIter is held
NoIter == [x |-> -1, y |-> -1]

\* a host that has called nothing on the screen, holds no iterator and whose
\* random-byte source would supply 0
HostIdle == [call |-> "none", args |-> << >>, returned |-> NothingReturned,
             iter |-> NoIter, random_source |-> 0]

\* a Machine built under profile p whose State is st
Machine_with(st, set, freq, p) ==
    /\ state = st
    /\ instruction_set = set
    /\ frequency_hz = freq
    /\ counter = 0
    /\ profile = p
    /\ panic = "none"
    /\ call_log = << >>
    /\ host = HostIdle

\* Machine::new(game_code, instruction_set, frequency_hz), built under profile p
Machine_new(game_code, set, freq, p) == Machine_with(State_new(game_code), set, freq, p)

\* nothing fetched or decoded yet
NothingFetched == opcode = -1 /\ decoded = NotDecoded

\* the history of the Calls in progress after a cycle that left outcome r
call_log_after(r) ==
    IF r.panic = "none" /\ r.decoded.instruction = "Call"
    THEN Append(call_log, [return_to |-> state.pc + 2,
                           stack_pointer |-> state.stack_pointer])
    ELSE IF r.panic = "none" /\ r.decoded.instruction = "Ret" /\ call_log # << >>
    THEN SubSeq(call_log, 1, Len(call_log) - 1)
    ELSE call_log

\* the host calls machine.cycle()
Cycle ==
    /\ panic = "none"
    /\ counter < MaxCycles
    /\ \E r \in {cycle(state, counter + 1)} :
          /\ state' = r.st
          /\ panic' = r.panic
          /\ opcode' = r.op
          /\ decoded' = r.decoded
          /\ call_log' = call_log_after(r)
    /\ counter' = counter + 1
    /\ UNCHANGED <<instruction_set, frequency_hz, profile, host>>

\* the host writes the public fields state.delay_timer and state.sound_timer
HostSetTimers(delay, sound) ==
    /\ panic = "none"
    /\ state' = [state EXCEPT !.delay_timer = delay, !.sound_timer = sound]
    /\ UNCHANGED <<instruction_set, frequency_hz, counter, profile, panic, opcode,
                   decoded, call_log, host>>

\* the host calls an operation of machine.state.screen with the arguments
\* args: the screen it leaves, what it returns and the panic it raises, if any
ScreenCall(name, args, screen, returned, raised) ==
    /\ panic = "none"
    /\ host.call = "none"
    /\ state' = [state EXCEPT !.screen = screen]
    /\ host' = [host EXCEPT !.call = name, !.args = args, !.returned = returned]
    /\ panic' = raised
    /\ UNCHANGED <<instruction_set, frequency_hz, counter, profile, opcode, decoded,
                   call_log>>

HostSetPixel(x, y) ==
    /\ host.call = "none"
    /\ ScreenCall("set_pixel", <<x, y>>, set_pixel(state.screen, x, y), NothingReturned,
                  "none")

HostUnsetPixel(x, y) ==
    /\ host.call = "none"
    /\ ScreenCall("unset_pixel", <<x, y>>, unset_pixel(state.screen, x, y),
                  NothingReturned, "none")

HostFlipPixel(x, y) ==
    /\ host.call = "none"
    /\ \E r \in {flip_pixel(state.screen, x, y)} :
          ScreenCall("flip_pixel", <<x, y>>, r.screen, Returned("FlipResult", r.result),
                     "none")

HostGetPixel(x, y) ==
    /\ host.call = "none"
    /\ ScreenCall("get_pixel", <<x, y>>, state.screen,
                  Returned("PixelState", get_pixel(state.screen, x, y)), "none")

HostSetVectored(vector, x, y) ==
    /\ host.call = "none"
    /\ ScreenCall("set_vectored", <<vector, x, y>>,
                  set_vectored(state.screen, vector, x, y), NothingReturned, "none")

HostUnsetVectored(vector, x, y) ==
    /\ host.call = "none"
    /\ ScreenCall("unset_vectored", <<vector, x, y>>,
                  unset_vectored(state.screen, vector, x, y), NothingReturned, "none")

HostFlipVectored(vector, x, y) ==
    /\ host.call = "none"
    /\ \E r \in {flip_vectored(state.screen, vector, x, y)} :
          ScreenCall("flip_vectored", <<vector, x, y>>, r.screen,
                     Returned("FlipResult", r.result), "none")

HostGetVectored(x, y) ==
    /\ host.call = "none"
    /\ \E r \in {get_vectored(state.screen, x, y)} :
          ScreenCall("get_vectored", <<x, y>>, state.screen, Returned("u8", r.value),
                     r.panic)

\* the host calls machine.screen().iter(), dropping the iterator it held
HostIter ==
    /\ panic = "none"
    /\ host.call \in {"none", "iter", "next"}
    /\ host' = [host EXCEPT !.call = "iter", !.args = << >>,
                            !.returned = NothingReturned,
                            !.iter = Screen_iter(state.screen)]
    /\ UNCHANGED <<state, instruction_set, frequency_hz, counter, profile, panic,
                   opcode, decoded, call_log>>

\* the host calls next() on the iterator it holds
HostIterNext ==
    /\ panic = "none"
    /\ host.iter # NoIter
    /\ \E r \in {ScreenIter_next(state.screen, host.iter)} :
          host' = [host EXCEPT !.call = "next", !.args = << >>,
                               !.returned = Returned("Option", r.item),
                               !.iter = r.iter]
    /\ UNCHANGED <<state, instruction_set, frequency_hz, counter, profile, panic,
                   opcode, decoded, call_log>>

\* decode_instruction(&instruction_set, opcode) called on its own
Decode ==
    /\ panic = "none"
    /\ decoded = NotDecoded
    /\ opcode # -1
    /\ decoded' = decode_instruction(instruction_set, opcode)
    /\ UNCHANGED <<state, instruction_set, frequency_hz, counter, profile, panic,
                   opcode, call_log, host>>

-----------------------------------------------------------------------------
(* The program images the machine is created from *)

\* instruction words the generated programs are built from
Pool ==
    { \h00E0, \h00EE, \h8008, \h1200, \h1FFF, \h2200, \h2202, \h3000, \h4000,
      \h60FF, \h7001, \h8014, \h801E, \h5011, \hAFFF, \hBFFF, \hD012, \hC0FF,
      \hF007 }

\* longer programs: nested calls and returns, sprites drawn from the font
Scenarios ==
    { << \h2204, \h1202, \h2208, \h00EE, \h00EE >>,
      << \h2204, \h00EE, \h2202, \h00EE >>,
      << \hA050, \hD005, \hD005 >>,
      << \h61FF, \hA050, \hD012 >>,
      << \h603C, \hA050, \hD005, \h00E0 >>,
      << \h60FF, \hBF01 >> }

Programs == UNION {[1 .. n -> Pool] : n \in 1 .. ProgLen} \cup Scenarios

\* the bytes of a program, each word big-endian
game_code_of(words) ==
    [i \in 1 .. 2 * Len(words) |->
        IF i % 2 = 1 THEN words[(i + 1) \div 2] \div 256 ELSE words[i \div 2] % 256]

-----------------------------------------------------------------------------
(* Spec: a machine created from a program image and cycled by its host *)

Init ==
    \E words \in Programs, set \in InstructionSets, p \in Profiles :
        /\ Machine_new(game_code_of(words), set, CLOCK_FREQUENCY, p)
        /\ NothingFetched

Next == Cycle

Spec == Init /\ [][Next]_vars

-----------------------------------------------------------------------------
(* SpecDecode: the decoder applied to every 16-bit word *)

OpCodes == 0 .. U16 - 1

InitDecode ==
    /\ Machine_new(<< >>, make_standard_set, CLOCK_FREQUENCY, "debug")
    /\ opcode \in OpCodes
    /\ decoded = NotDecoded

NextDecode == Decode

SpecDecode == InitDecode /\ [][NextDecode]_vars

-----------------------------------------------------------------------------
(* SpecTimers: a running machine whose host sets the timers *)

TimerValues == {0, 1, 2, 255}
Frequencies == {30, 60, 120, 200, CLOCK_FREQUENCY}
TimerPrograms == { << \h1200 >>, << \h6005, \hF015, \hF018, \h1200 >>,
                   << \h1202, \h1204, \h8008 >> }

InitTimers ==
    \E words \in TimerPrograms, freq \in Frequencies :
        /\ Machine_new(game_code_of(words), make_standard_set, freq, "release")
        /\ NothingFetched

NextTimers ==
    \/ Cycle
    \/ \E delay \in TimerValues, sound \in TimerValues : HostSetTimers(delay, sound)

SpecTimers == InitTimers /\ [][NextTimers]_vars

-----------------------------------------------------------------------------
(* SpecAlu: one 8XYn instruction run on registers the host has written *)

\* the word 8XYn
alu_word(x, y, n) == 32768 + x * 256 + y * 16 + n

AluOps == {4, 5}
EdgeBytes == {0, 1, 127, 128, 255}

\* <<x, y, a, b>>: register x holds a and register y holds b; every pair of
\* values for the registers 0 and 1, edge values where y is x or the flag register
AluInputs ==
    {<<0, 1, a, b>> : a \in Byte, b \in Byte}
        \cup {<<2, 2, a, a>> : a \in EdgeBytes}
        \cup {<<3, 15, a, b>> : a \in EdgeBytes, b \in EdgeBytes}
        \cup {<<14, 0, a, b>> : a \in EdgeBytes, b \in EdgeBytes}

\* the machine is created from the one-word program, then the host calls
\* state.reg_write(y, b) and state.reg_write(x, a)
InitAlu ==
    \E in \in AluInputs, n \in AluOps, p \in Profiles :
        LET st == State_new(game_code_of(<< alu_word(in[1], in[2], n) >>))
        IN /\ Machine_with(reg_write(reg_write(st, in[2], in[4]), in[1], in[3]),
                           make_standard_set, CLOCK_FREQUENCY, p)
           /\ NothingFetched

NextAlu == Cycle

SpecAlu == InitAlu /\ [][NextAlu]_vars

-----------------------------------------------------------------------------
(* SpecShift: 8XY6, 8XY7 and 8XYE under both instruction sets *)

ShiftOps == {6, 7, 14}

\* <<x, y, a, b>> as in AluInputs: every value of register 0 against edge
\* values of register 1, edge values where y is x or one of them is the flag
\* register
ShiftInputs ==
    {<<0, 1, a, b>> : a \in Byte, b \in EdgeBytes}
        \cup {<<2, 2, a, a>> : a \in EdgeBytes}
        \cup {<<3, 15, a, b>> : a \in EdgeBytes, b \in EdgeBytes}
        \cup {<<15, 1, a, b>> : a \in EdgeBytes, b \in EdgeBytes}

InitShift ==
    \E in \in ShiftInputs, n \in ShiftOps, set \in InstructionSets, p \in Profiles :
        LET st == State_new(game_code_of(<< alu_word(in[1], in[2], n) >>))
        IN /\ Machine_with(reg_write(reg_write(st, in[2], in[4]), in[1], in[3]),
                           set, CLOCK_FREQUENCY, p)
           /\ NothingFetched

NextShift == Cycle

SpecShift == InitShift /\ [][NextShift]_vars

-----------------------------------------------------------------------------
(* SpecSets: words of every family run under each instruction set *)

\* register values the host has written, all different
HostRegisters == [r \in Registers |-> (r * 37 + 1) % U8]

\* the words whose X and Y fields name one of these registers: every family,
\* every low nibble and every slot of the table, known or not
SetsOperands == {0, 1, 2, VF}
SetsOpCodes == {op \in OpCodes : get_x(op) \in SetsOperands /\ get_y(op) \in SetsOperands}

\* the one-word program op; the host has written the registers with
\* state.reg_write and the public field state.index
InitSets ==
    \E op \in SetsOpCodes, set \in InstructionSets, p \in Profiles :
        LET st == State_new(game_code_of(<< op >>))
        IN /\ Machine_with([st EXCEPT !.registers = HostRegisters, !.index = FONT_START],
                           set, CLOCK_FREQUENCY, p)
           /\ NothingFetched

NextSets == Cycle

SpecSets == InitSets /\ [][NextSets]_vars

-----------------------------------------------------------------------------
(* SpecDraw: sprites drawn from the program image onto the screen *)

\* the instruction words of the drawing programs: each program runs into the
\* zeroed word that follows it
DrawPrograms ==
    { << \hD015, \hD015 >>,
      << \hD235, \hD015, \hD015 >>,
      << \hD015, \h00E0 >>,
      << \hD235, \hD015, \h00E0 >>,
      << \hD01F >>,
      << \hD010 >>,
      << \hD011, \hD231, \h00E0 >>,
      << \hD018, \hD238, \hD018 >>,
      << \hD0F3, \hD0F3 >> }

\* sprite rows stored behind the program, from PROGRAM_START + 8 on
DrawData == << \hFF81, \h3C7E, \hA501, \h8000, \h18C3, \h55AA, \h0FF0, \h9966 >>

\* a program padded with zeroed words to four words, then the sprite rows
draw_image(words) ==
    game_code_of(words \o [i \in 1 .. 4 - Len(words) |-> 0] \o DrawData)

\* State::new of each image
DrawStates == [words \in DrawPrograms |-> State_new(draw_image(words))]

DrawXs == {0, 3, 60, 63, 64, 255}
DrawYs == {0, 28, 31, 32, 241, 255}
DrawX2s == {0, 4}
DrawY2s == {0, 2}
DrawIndexes == {PROGRAM_START + 8, PROGRAM_START + 10, RAM_SIZE - 6}

\* the machine is created from the image, then the host writes the registers
\* 0..3 with state.reg_write and the public field state.index
InitDraw ==
    \E words \in DrawPrograms, x \in DrawXs, y \in DrawYs, x2 \in DrawX2s, y2 \in DrawY2s,
       i \in DrawIndexes, p \in Profiles :
        LET st == DrawStates[words]
            regs == [st.registers EXCEPT ![0] = x, ![1] = y, ![2] = x2, ![3] = y2]
        IN /\ Machine_with([st EXCEPT !.registers = regs, !.index = i],
                           make_standard_set, CLOCK_FREQUENCY, p)
           /\ NothingFetched

NextDraw == Cycle

SpecDraw == InitDraw /\ [][NextDraw]_vars

-----------------------------------------------------------------------------
(* SpecScreen: the operations of Screen called by the host *)

\* screens the host has built with earlier calls: row 0 holds the columns
\* 0, 2, 5, 7 and 56 .. 63, row 1 the column 60
ScreenBuilt ==
    set_vectored(set_vectored(set_vectored(Screen_default, 255, 56, 0), 165, 0, 0),
                 129, 60, 1)

\* the same with row 31 filled from column 0 to 15 and the changed flag reset
ScreenBuiltAndShown ==
    reset_changed_flag(set_vectored(set_vectored(ScreenBuilt, 255, 0, 31), 255, 8, 31))

ScreenSamples == {Screen_default, ScreenBuilt, ScreenBuiltAndShown}

ScreenXs == {0, 5, 56, 57, 60, 63, 64, 255}
ScreenYs == {0, 1, 31, 32, 255}
ScreenVectors == {255, 129, 15}

InitScreen ==
    \E screen \in ScreenSamples, p \in Profiles :
        /\ Machine_with([State_new(<< >>) EXCEPT !.screen = screen],
                        make_standard_set, CLOCK_FREQUENCY, p)
        /\ NothingFetched

NextScreen ==
    \/ \E x \in ScreenXs, y \in ScreenYs : HostSetPixel(x, y)
    \/ \E x \in ScreenXs, y \in ScreenYs : HostUnsetPixel(x, y)
    \/ \E x \in ScreenXs, y \in ScreenYs : HostFlipPixel(x, y)
    \/ \E x \in ScreenXs, y \in ScreenYs : HostGetPixel(x, y)
    \/ \E vector \in ScreenVectors, x \in ScreenXs, y \in ScreenYs :
            HostSetVectored(vector, x, y)
    \/ \E vector \in ScreenVectors, x \in ScreenXs, y \in ScreenYs :
            HostUnsetVectored(vector, x, y)
    \/ \E vector \in ScreenVectors, x \in ScreenXs, y \in ScreenYs :
            HostFlipVectored(vector, x, y)
    \/ \E x \in ScreenXs, y \in ScreenYs : HostGetVectored(x, y)
    \/ HostIter
    \/ HostIterNext

SpecScreen == InitScreen /\ [][NextScreen]_vars

-----------------------------------------------------------------------------
(* SpecCreate: machines created from program images of every short length *)

ImageBytes == {0, 18, 224, 255}
MaxImageLen == 3
Images == UNION {[1 .. n -> ImageBytes] : n \in 0 .. MaxImageLen}

\* the host has called Machine::new(game_code, set, CLOCK_FREQUENCY)
InitCreate ==
    \E game_code \in Images, set \in InstructionSets, p \in Profiles :
        /\ state = State_new(game_code)
        /\ instruction_set = set
        /\ frequency_hz = CLOCK_FREQUENCY
        /\ counter = 0
        /\ profile = p
        /\ panic = "none"
        /\ call_log = << >>
        /\ host = [HostIdle EXCEPT !.call = "new", !.args = <<game_code>>]
        /\ NothingFetched

NextCreate == Cycle

SpecCreate == InitCreate /\ [][NextCreate]_vars

-----------------------------------------------------------------------------
(* SpecRandom: one CXNN instruction run beside a source of random bytes *)

\* the word CXNN
random_word(x, nn) == 49152 + x * 256 + nn

\* the byte the host's source of random bytes supplies next
RandomSources == {0, 122, 133, 255}
RandomTargets == {0, VF}

InitRandom ==
    \E x \in RandomTargets, nn \in Byte, b \in RandomSources, p \in Profiles :
        /\ state = State_new(game_code_of(<< random_word(x, nn) >>))
        /\ instruction_set = make_standard_set
        /\ frequency_hz = CLOCK_FREQUENCY
        /\ counter = 0
        /\ profile = p
        /\ panic = "none"
        /\ call_log = << >>
        /\ host = [HostIdle EXCEPT !.random_source = b]
        /\ NothingFetched

NextRandom == Cycle

SpecRandom == InitRandom /\ [][NextRandom]_vars

-----------------------------------------------------------------------------
(* Properties *)

\* the big-endian word at the program counter of the current state
WordAtPc == ram_at(state.ram, state.pc) * 256 + ram_at(state.ram, state.pc + 1)
\* the step is one call of cycle() whose fetch reads inside the memory
CycleStep == counter' = counter + 1
FetchingStep == CycleStep /\ state.pc + 1 < RAM_SIZE

\* The instruction table as the specification lists it: the family nibble,
\* which of the other bits are fixed, and their value
C1_Patterns ==
    << [family |-> 0,  fixed |-> "word", low |-> 224],   \* 00E0
       [family |-> 0,  fixed |-> "word", low |-> 238],   \* 00EE
       [family |-> 1,  fixed |-> "none", low |-> 0],     \* 1NNN
       [family |-> 2,  fixed |-> "none", low |-> 0],     \* 2NNN
       [family |-> 3,  fixed |-> "none", low |-> 0],     \* 3XNN
       [family |-> 4,  fixed |-> "none", low |-> 0],     \* 4XNN
       [family |-> 5,  fixed |-> "n",    low |-> 0],     \* 5XY0
       [family |-> 6,  fixed |-> "none", low |-> 0],     \* 6XNN
       [family |-> 7,  fixed |-> "none", low |-> 0],     \* 7XNN
       [family |-> 8,  fixed |-> "n",    low |-> 0],     \* 8XY0
       [family |-> 8,  fixed |-> "n",    low |-> 1],     \* 8XY1
       [family |-> 8,  fixed |-> "n",    low |-> 2],     \* 8XY2
       [family |-> 8,  fixed |-> "n",    low |-> 3],     \* 8XY3
       [family |-> 8,  fixed |-> "n",    low |-> 4],     \* 8XY4
       [family |-> 8,  fixed |-> "n",    low |-> 5],     \* 8XY5
       [family |-> 8,  fixed |-> "n",    low |-> 6],     \* 8XY6
       [family |-> 8,  fixed |-> "n",    low |-> 7],     \* 8XY7
       [family |-> 8,  fixed |-> "n",    low |-> 14],    \* 8XYE
       [family |-> 9,  fixed |-> "n",    low |-> 0],     \* 9XY0
       [family |-> 10, fixed |-> "none", low |-> 0],     \* ANNN
       [family |-> 11, fixed |-> "none", low |-> 0],     \* BNNN
       [family |-> 12, fixed |-> "none", low |-> 0],     \* CXNN
       [family |-> 13, fixed |-> "none", low |-> 0],     \* DXYN
       [family |-> 14, fixed |-> "nn",   low |-> 158],   \* EX9E
       [family |-> 14, fixed |-> "nn",   low |-> 161],   \* EXA1
       [family |-> 15, fixed |-> "nn",   low |-> 7],     \* FX07
       [family |-> 15, fixed |-> "nn",   low |-> 10],    \* FX0A
       [family |-> 15, fixed |-> "nn",   low |-> 21],    \* FX15
       [family |-> 15, fixed |-> "nn",   low |-> 24],    \* FX18
       [family |-> 15, fixed |-> "nn",   low |-> 30],    \* FX1E
       [family |-> 15, fixed |-> "nn",   low |-> 41],    \* FX29
       [family |-> 15, fixed |-> "nn",   low |-> 51],    \* FX33
       [family |-> 15, fixed |-> "nn",   low |-> 85],    \* FX55
       [family |-> 15, fixed |-> "nn",   low |-> 101] >> \* FX65

C1_Matches(op, slot) ==
    LET p == C1_Patterns[slot + 1] IN
    /\ op \div 4096 = p.family
    /\ CASE p.fixed = "word" -> op = p.low
         [] p.fixed = "n" -> op % 16 = p.low
         [] p.fixed = "nn" -> op % 256 = p.low
         [] OTHER -> TRUE

C1_MatchingSlots(op) == {slot \in Slots : C1_Matches(op, slot)}

\* C1: for every 16-bit opcode, decode_instruction returns the slot of the
\* table pattern the opcode matches, and the unknown-instruction error for
\* every opcode that matches none of the 34 patterns; it never returns a
\* slot for an opcode that does not match that slot's pattern.
C1_DecodeFollowsTable ==
    decoded # NotDecoded =>
        IF C1_MatchingSlots(opcode) = {}
        THEN ~decoded.ok /\ decoded.slot = UnknownInstructionError
        ELSE decoded.ok /\ decoded.slot \in C1_MatchingSlots(opcode)

\* C2: when the word fetched by cycle() matches no instruction, the engine
\* does not abort: the step ends normally and reports the unknown
\* instruction to its caller.
C2_UnknownInstructionReported ==
    decoded.slot = UnknownInstructionError => panic = "none"

\* C3: a Call executed with 16 return addresses on the stack is fatal (the
\* cycle panics) and corrupts nothing: no stack slot is overwritten, the
\* stack pointer stays at 16 and the program counter keeps the value the
\* fetch left (it is not set to the call target).
C3_CallOnFullStackIsFatal ==
    [][(FetchingStep /\ WordAtPc \div 4096 = 2 /\ state.stack_pointer = STACK_SIZE)
        => /\ panic' # "none"
           /\ state'.stack = state.stack
           /\ state'.stack_pointer = STACK_SIZE
           /\ state'.pc = state.pc + 2]_vars

\* the 17th nested Call has panicked
C3_Witness ==
    /\ panic = "index out of bounds"
    /\ decoded.instruction = "Call"
    /\ state.stack_pointer = STACK_SIZE
    /\ Len(call_log) = STACK_SIZE

\* C4: a Return executed on an empty stack is fatal, the stack pointer
\* stays at 0 (it neither goes negative nor wraps to 255) and the program
\* counter is not loaded from a stack slot.
C4_RetOnEmptyStackKeepsPointer ==
    [][(FetchingStep /\ WordAtPc = 238 /\ state.stack_pointer = 0)
        => /\ panic' # "none"
           /\ state'.stack_pointer = 0
           /\ state'.pc = state.pc + 2]_vars


Last(seq) == seq[Len(seq)]

\* C5: Call and Return are last-in-first-out: a Return that succeeds sets the
\* program counter to the value it had when the matching Call began executing
\* (the address after the Call's two bytes) and restores the stack pointer
\* to its value before that Call.
C5_ReturnRestoresCaller ==
    [][(CycleStep /\ panic' = "none" /\ decoded'.instruction = "Ret" /\ call_log # << >>)
        => /\ state'.pc = Last(call_log).return_to
           /\ state'.stack_pointer = Last(call_log).stack_pointer]_vars

\* a Return has come back from a nested Call: an outer Call is still open
C5_Witness ==
    /\ panic = "none"
    /\ decoded.instruction = "Ret"
    /\ call_log # << >>
    /\ state.stack_pointer = Len(call_log)
    /\ state.pc # PROGRAM_START

\* C6: a memory read past address 4095 is fatal and never wraps around: a
\* fetch with the program counter above 4094, and a Draw whose index
\* register plus height exceeds 4096, panic without changing a pixel or a
\* register (the failed fetch leaves the program counter, the index
\* register and the stack as they were too).
C6_MemoryRangeViolationIsFatal ==
    [][/\ (CycleStep /\ state.pc > RAM_SIZE - 2)
            => /\ panic' # "none"
               /\ state'.screen.inner = state.screen.inner
               /\ state'.registers = state.registers
               /\ state'.pc = state.pc
               /\ state'.index = state.index
               /\ state'.stack = state.stack
               /\ state'.stack_pointer = state.stack_pointer
       /\ (FetchingStep /\ WordAtPc \div 4096 = 13
                        /\ state.index + (WordAtPc % 16) > RAM_SIZE)
            => /\ panic' # "none"
               /\ state'.screen.inner = state.screen.inner
               /\ state'.registers = state.registers]_vars

\* a Draw reaching past the end of the memory has panicked
C6_Witness ==
    /\ panic # "none"
    /\ decoded.instruction = "Draw"
    /\ opcode \div 4096 = 13
    /\ state.index + (opcode % 16) > RAM_SIZE

\* a fetch past the end of the memory, reached through JumpOffset, has panicked
C6_FetchWitness ==
    /\ panic = "index out of bounds"
    /\ decoded.instruction = "JumpOffset"
    /\ state.pc > RAM_SIZE

PcWriters ==
    {"Jump", "Call", "Ret", "JumpOffset", "SkipEqConst", "SkipNeqConst", "SkipEq", "SkipNeq"}

\* C7: in every step the word executed is ram[pc] * 256 + ram[pc + 1] for the
\* program counter at the start of the step, and the program counter is
\* advanced by 2 before the instruction executes: an instruction that does
\* not write the program counter leaves it at old pc + 2, and a Call pushes
\* old pc + 2.
C7_FetchBigEndianThenAdvance ==
    [][FetchingStep
        => /\ opcode' = WordAtPc
           /\ decoded' = decode_instruction(instruction_set, WordAtPc)
           /\ (decoded'.instruction \notin PcWriters => state'.pc = state.pc + 2)
           /\ (decoded'.instruction = "Call" /\ panic' = "none"
                 => state'.stack[state.stack_pointer] = state.pc + 2)]_vars

\* the word 60FF was fetched from two different bytes and executed as Set
C7_Witness ==
    /\ panic = "none"
    /\ opcode = 24831
    /\ decoded.instruction = "Set"
    /\ state.registers[0] = 255
    /\ state.pc = PROGRAM_START + 4

TimerStepOk(before, after) ==
    /\ after \in {before, before - 1}
    /\ before = 0 => after = 0

\* C8: the delay timer and the sound timer are always in 0..255; across a
\* cycle each of them keeps its value or decreases by exactly 1, and a timer
\* that is 0 stays 0.
C8_TimersSaturateAtZero ==
    /\ [](state.delay_timer \in Byte /\ state.sound_timer \in Byte)
    /\ [][CycleStep
            => /\ TimerStepOk(state.delay_timer, state'.delay_timer)
               /\ TimerStepOk(state.sound_timer, state'.sound_timer)]_vars

\* the delay timer has been decremented twice from 255 while the sound
\* timer was held at 0
C8_Witness ==
    /\ state.delay_timer = 253
    /\ state.sound_timer = 0
    /\ counter >= 2


\* the cycle about to run executes the word 8XYn with X not the flag register
AluStep(n) ==
    /\ FetchingStep
    /\ WordAtPc \div 4096 = 8
    /\ WordAtPc % 16 = n
    /\ get_x(WordAtPc) # VF

\* C9: Add (8XY4) with X not 15: for a = Vx and b = Vy, afterwards
\* Vx = (a + b) mod 256 and register 15 = 1 if a + b > 255, else 0.
C9_AddSetsCarry ==
    [][AluStep(4)
        => LET a == state.registers[get_x(WordAtPc)]
               b == state.registers[get_y(WordAtPc)]
           IN /\ panic' = "none"
              /\ state'.registers[get_x(WordAtPc)] = (a + b) % 256
              /\ state'.registers[VF] = IF a + b > 255 THEN 1 ELSE 0]_vars

\* 100 + 200 has been added: 44 with the carry set
C9_Witness ==
    /\ panic = "none"
    /\ opcode = alu_word(0, 1, 4)
    /\ state.registers[0] = 44
    /\ state.registers[1] = 200
    /\ state.registers[VF] = 1

StandardAluStep(n) == AluStep(n) /\ instruction_set = make_standard_set

\* C11: SubN (8XY7) with X not 15: for a = Vx and b = Vy, afterwards
\* Vx = (b - a) mod 256 and register 15 = 1 if b >= a (no borrow), else 0.
C11_SubNSetsNoBorrow ==
    [][AluStep(7)
        => LET a == state.registers[get_x(WordAtPc)]
               b == state.registers[get_y(WordAtPc)]
           IN /\ panic' = "none"
              /\ state'.registers[get_x(WordAtPc)] = (b - a) % 256
              /\ state'.registers[VF] = IF b >= a THEN 1 ELSE 0]_vars

\* C12: ShiftRight of the standard set (8XY6) with X not 15: for a = Vx,
\* afterwards Vx = a div 2 and register 15 = bit 0 of a; Vy is not changed.
C12_ShiftRightSetsShiftedOutBit ==
    [][StandardAluStep(6)
        => LET a == state.registers[get_x(WordAtPc)]
               y == get_y(WordAtPc)
           IN /\ panic' = "none"
              /\ state'.registers[get_x(WordAtPc)] = a \div 2
              /\ state'.registers[VF] = a % 2
              /\ y \notin {get_x(WordAtPc), VF}
                    => state'.registers[y] = state.registers[y]]_vars

\* C13: ShiftLeft of the standard set (8XYE) with X not 15: the instruction
\* succeeds and for a = Vx, afterwards Vx = (2 * a) mod 256 and register 15 =
\* bit 7 of a.
C13_ShiftLeftSetsShiftedOutBit ==
    [][StandardAluStep(14)
        => LET a == state.registers[get_x(WordAtPc)]
           IN /\ panic' = "none"
              /\ state'.registers[get_x(WordAtPc)] = (2 * a) % 256
              /\ state'.registers[VF] = a \div 128]_vars

\* the next word is the shift 8XY6 or 8XYE and no cycle has failed
ShiftIsNext ==
    /\ panic = "none"
    /\ state.pc + 1 < RAM_SIZE
    /\ get_first_nibble(WordAtPc) = 8
    /\ get_n(WordAtPc) \in {6, 14}

\* what a shift leaves: the outcome, Vx and the flag register
ShiftResult(r) ==
    <<r.panic, r.st.registers[get_x(WordAtPc)], r.st.registers[VF]>>

\* C14: a shift (8XY6, 8XYE) run from the same state under the standard set
\* and under the legacy set leaves the same Vx and flag register when Vx and
\* Vy hold equal values, and different ones when Vx and Vy hold different
\* values.
C14_ShiftModesDifferIffOperandsDiffer ==
    ShiftIsNext
        => LET standard == cycle_with(make_standard_set, state, counter + 1)
               legacy == cycle_with(make_legacy_set, state, counter + 1)
               a == state.registers[get_x(WordAtPc)]
               b == state.registers[get_y(WordAtPc)]
           IN /\ a = b => ShiftResult(standard) = ShiftResult(legacy)
              /\ a # b => ShiftResult(standard) # ShiftResult(legacy)

\* the instruction set this machine was not given
OtherSet == IF instruction_set = make_standard_set THEN make_legacy_set ELSE make_standard_set

\* C15: the legacy set differs from the standard set in the two shift slots
\* only: a cycle that runs any word other than 8XY6 and 8XYE leaves the state
\* and the outcome that the same cycle leaves under the other set.
C15_SetsAgreeOutsideShifts ==
    [][(FetchingStep /\ ~(get_first_nibble(WordAtPc) = 8 /\ get_n(WordAtPc) \in {6, 14}))
        => LET other == cycle_with(OtherSet, state, counter + 1)
           IN /\ state' = other.st
              /\ panic' = other.panic
              /\ decoded'.ok = other.decoded.ok]_vars

\* 8017 has run under the legacy set: SubN has left V1 - V0 = 38 - 1 in V0
C15_Witness ==
    /\ instruction_set = make_legacy_set
    /\ opcode = alu_word(0, 1, 7)
    /\ panic = "none"
    /\ state.registers[0] = 37

\* C16: after the standard assembly each of the 34 slots holds an instruction
\* of its own; none, the EX9E, EXA1 and FX07..FX65 slots included, is left as
\* the default no-op.
C16_StandardSetPopulatesEverySlot ==
    instruction_set = make_standard_set
        => \A slot \in Slots : instruction_set[slot] # make_nop_set[slot]

\* a Draw (DXYN) is about to run
DrawStep == FetchingStep /\ get_first_nibble(WordAtPc) = 13

\* the operands of the Draw at the program counter
DrawX == state.registers[get_x(WordAtPc)]
DrawY == state.registers[get_y(WordAtPc)]
DrawHeight == get_n(WordAtPc)
SpriteByte(i) == ram_at(state.ram, state.index + i)

\* the columns sprite row i covers: bit 7 - k of the byte at column
\* (Vx mod 64) + k, as far as the row reaches
SpriteColumns(i) ==
    {c \in Cols : \E k \in 0 .. 7 :
        c = (DrawX % SCREEN_COLS) + k /\ Bit(SpriteByte(i), 7 - k) = 1}

\* the framebuffer row sprite row i goes to
SpriteRow(i) == (DrawY + i) % SCREEN_ROWS

\* C17: after Draw, register 15 = 1 if for some sprite row a pixel set before
\* that row's XOR was unset by it, else 0; drawn onto an all-unset framebuffer
\* at (0,0), register 15 = 0 and rows 0 .. height-1 show the sprite bytes in
\* columns 0 .. 7.
C17_DrawFlagIsCollision ==
    [][(DrawStep /\ panic' = "none")
        => LET cleared(i) == (state.screen.inner[SpriteRow(i)] \cap SpriteColumns(i)) # {}
               blank == \A r \in Rows : state.screen.inner[r] = {}
           IN /\ state'.registers[VF]
                    = IF \E i \in 0 .. DrawHeight - 1 : cleared(i) THEN 1 ELSE 0
              /\ (blank /\ DrawX = 0 /\ DrawY = 0)
                    => /\ state'.registers[VF] = 0
                       /\ \A i \in 0 .. DrawHeight - 1 :
                            state'.screen.inner[i]
                                = {k \in 0 .. 7 : Bit(SpriteByte(i), 7 - k) = 1}]_vars

\* the second D015 of a program has reported a collision
C17_Witness ==
    /\ panic = "none"
    /\ opcode = 53269
    /\ counter = 2
    /\ state.registers[VF] = 1
    /\ state.index = PROGRAM_START + 8

\* the next two words are the same Draw, whose coordinates are not read from
\* the flag register, and no cycle has failed
SameDrawTwiceIsNext ==
    /\ panic = "none"
    /\ state.pc + 3 < RAM_SIZE
    /\ get_first_nibble(WordAtPc) = 13
    /\ ram_at(state.ram, state.pc + 2) * 256 + ram_at(state.ram, state.pc + 3) = WordAtPc
    /\ get_x(WordAtPc) # VF
    /\ get_y(WordAtPc) # VF

\* the two cycles that run them
FirstDraw == cycle(state, counter + 1)
SecondDraw == cycle(FirstDraw.st, counter + 2)
BothDrawsComplete == FirstDraw.panic = "none" /\ SecondDraw.panic = "none"

\* C18 as amended: drawing the same sprite twice at the same coordinates
\* restores every pixel, and the second Draw reports a collision exactly when
\* the first Draw turned on at least one pixel, that is when the sprite has a
\* set pixel on the screen that was unset before the first Draw.
C18_DrawTwiceRestoresAndErases ==
    (SameDrawTwiceIsNext /\ BothDrawsComplete)
        => /\ SecondDraw.st.screen.inner = state.screen.inner
           /\ SecondDraw.st.registers[VF] = 1
                <=> \E i \in 0 .. DrawHeight - 1 :
                        SpriteColumns(i) \ state.screen.inner[SpriteRow(i)] # {}

\* C18 as stated: drawing the same sprite twice at the same coordinates
\* restores every pixel, and the second Draw reports a collision only if
\* other screen content overlapped the sprite before the first Draw.
C18_DrawTwiceCollidesOnlyWithOtherContent ==
    (SameDrawTwiceIsNext /\ BothDrawsComplete)
        => /\ SecondDraw.st.screen.inner = state.screen.inner
           /\ SecondDraw.st.registers[VF] = 1
                => \E i \in 0 .. DrawHeight - 1 :
                        SpriteColumns(i) \cap state.screen.inner[SpriteRow(i)] # {}

\* D015 has run twice from a blank screen: the screen is blank again and the
\* second Draw has reported a collision
C18_Witness ==
    /\ panic = "none"
    /\ opcode = 53269
    /\ counter = 2
    /\ ram_at(state.ram, PROGRAM_START) * 256 + ram_at(state.ram, PROGRAM_START + 1) = 53269
    /\ state.index = PROGRAM_START + 8
    /\ \A r \in Rows : state.screen.inner[r] = {}
    /\ state.registers[VF] = 1

\* C19: for every Vx, Vy and height with index + height within the memory,
\* Draw completes and flips sprite row i into framebuffer row (Vy + i) mod 32
\* from column Vx mod 64 on; every other row is left as it was.
C19_DrawCompletesWithinScreen ==
    [][(DrawStep /\ state.index + DrawHeight <= RAM_SIZE)
        => /\ panic' = "none"
           /\ \A r \in Rows :
                LET hits == {i \in 0 .. DrawHeight - 1 : SpriteRow(i) = r}
                    before == state.screen.inner[r]
                IN state'.screen.inner[r]
                    = IF hits = {} THEN before
                      ELSE LET sprite == SpriteColumns(CHOOSE i \in hits : TRUE)
                           IN (before \ sprite) \cup (sprite \ before)]_vars

\* C20: ClearScreen (00E0) leaves every pixel unset and the changed flag set,
\* and changes no register, timer, stack slot or memory byte: the state is the
\* one the timer tick and the fetch of this cycle left, with the screen cleared.
C20_ClearScreenClearsOnlyTheScreen ==
    [][(FetchingStep /\ WordAtPc = 224)
        => /\ panic' = "none"
           /\ \A r \in Rows : state'.screen.inner[r] = {}
           /\ state'.screen.changed
           /\ state' = [update_counter(state, counter + 1) EXCEPT
                            !.pc = state.pc + 2,
                            !.screen = state'.screen]]_vars

\* 00E0 has run after a D015 that drew the sprite FF 81 3C 7E A5 at (3, 28)
C20_Witness ==
    /\ panic = "none"
    /\ opcode = 224
    /\ counter = 2
    /\ ram_at(state.ram, PROGRAM_START) * 256 + ram_at(state.ram, PROGRAM_START + 1) = 53269
    /\ state.index = PROGRAM_START + 8
    /\ state.registers[0] = 3
    /\ state.registers[1] = 28
    /\ \A r \in Rows : state.screen.inner[r] = {}
    /\ state.screen.changed

\* the host's call of the Screen operation name is this step
ScreenStep(name) == host.call = "none" /\ host'.call = name

\* the cell a call addresses: the last two arguments, clamped
CallX == host'.args[Len(host'.args) - 1] % SCREEN_COLS
CallY == host'.args[Len(host'.args)] % SCREEN_ROWS

\* the columns of the row the pattern of a vectored call selects: bit 7 - k
\* at column CallX + k, as far as the row reaches
CallPattern ==
    {c \in Cols : \E k \in 0 .. 7 : c = CallX + k /\ Bit(host'.args[1], 7 - k) = 1}

ScreenOperations ==
    {"set_pixel", "unset_pixel", "flip_pixel", "get_pixel", "set_vectored",
     "unset_vectored", "flip_vectored", "get_vectored"}

\* C21: for every x and y each Screen operation completes and acts on the row
\* y mod 32 at column x mod 64: no other row changes, getPixel returns the
\* state of that cell and getVectored the 8 pixels from that column on.
C21_ScreenOperationsClampAndComplete ==
    [][(host.call = "none" /\ host'.call \in ScreenOperations)
        => LET row == state.screen.inner[CallY]
           IN /\ panic' = "none"
              /\ \A r \in Rows \ {CallY} : state'.screen.inner[r] = state.screen.inner[r]
              /\ host'.call = "get_pixel"
                    => host'.returned.value = IF CallX \in row THEN "Set" ELSE "Unset"
              /\ host'.call = "get_vectored"
                    => host'.returned.value
                        = FromBits({7 - k : k \in {j \in 0 .. 7 : CallX + j \in row}})]_vars

\* C22: unsetPixel leaves its pixel Unset and every other pixel as it was,
\* unsetVectored clears the pixels its pattern selects and no other, and
\* setPixel sets its pixel and no other.
C22_UnsetChangesSelectedPixelsOnly ==
    [][/\ ScreenStep("unset_pixel")
            => state'.screen.inner = [state.screen.inner EXCEPT ![CallY] = @ \ {CallX}]
       /\ ScreenStep("unset_vectored")
            => state'.screen.inner = [state.screen.inner EXCEPT ![CallY] = @ \ CallPattern]
       /\ ScreenStep("set_pixel")
            => state'.screen.inner = [state.screen.inner EXCEPT ![CallY] = @ \cup {CallX}]]_vars

\* the number of items the iterator has yielded
Yielded(it) == it.y * SCREEN_COLS + it.x

\* C23: an iteration yields the 2048 triples (x, y, getPixel(x, y)) row by
\* row, then ends and stays ended; a fresh iterator starts at (0, 0); neither
\* call changes the pixels or the changed flag.
C23_IterationIsRowMajorAndFinite ==
    [][/\ host'.call = "next"
            => LET n == Yielded(host.iter)
                   x == n % SCREEN_COLS
                   y == n \div SCREEN_COLS
               IN /\ state' = state
                  /\ IF n < SCREEN_COLS * SCREEN_ROWS
                     THEN /\ host'.returned.value
                                = <<x, y, IF x \in state.screen.inner[y]
                                          THEN "Set" ELSE "Unset">>
                          /\ Yielded(host'.iter) = n + 1
                     ELSE /\ host'.returned.value = << >>
                          /\ Yielded(host'.iter) = SCREEN_COLS * SCREEN_ROWS
       /\ host'.call = "iter"
            => state' = state /\ Yielded(host'.iter) = 0]_vars

\* the iteration of the built screen has ended after its last pixel
C23_Witness ==
    /\ host.call = "next"
    /\ host.returned = Returned("Option", << >>)
    /\ host.iter = [x |-> 0, y |-> SCREEN_ROWS]
    /\ state.screen = ScreenBuilt


RandomStep == FetchingStep /\ get_first_nibble(WordAtPc) = 12

\* C24: Random (CXNN) stores in Vx the byte b AND NN, where b is the byte the
\* source of random bytes supplies, and changes no other register.
C24_RandomMasksByteFromSource ==
    [][RandomStep
        => /\ panic' = "none"
           /\ state'.registers
                = [state.registers EXCEPT ![get_x(WordAtPc)] =
                        u8_and(host.random_source, get_nn(WordAtPc))]]_vars


\* a skip (3XNN, 4XNN, 5XY0, 9XY0) is about to run
SkipStep ==
    /\ FetchingStep
    /\ \/ get_first_nibble(WordAtPc) \in {3, 4}
       \/ get_first_nibble(WordAtPc) \in {5, 9} /\ get_n(WordAtPc) = 0

\* the condition of the skip at the program counter
SkipCondition ==
    LET vx == state.registers[get_x(WordAtPc)]
        vy == state.registers[get_y(WordAtPc)]
        family == get_first_nibble(WordAtPc)
    IN CASE family = 3 -> vx = get_nn(WordAtPc)
         [] family = 4 -> vx # get_nn(WordAtPc)
         [] family = 5 -> vx = vy
         [] OTHER -> vx # vy

\* C25: a skip (3XNN: Vx = NN; 4XNN: Vx # NN; 5XY0: Vx = Vy; 9XY0: Vx # Vy)
\* leaves the program counter at its address + 4 when its condition holds and
\* at its address + 2 when it does not, and changes no register, memory byte,
\* stack slot, index register or pixel.
C25_SkipsMoveProgramCounterOnly ==
    [][SkipStep
        => /\ panic' = "none"
           /\ state'.pc = state.pc + (IF SkipCondition THEN 4 ELSE 2)
           /\ state'.registers = state.registers
           /\ state'.ram = state.ram
           /\ state'.stack = state.stack
           /\ state'.stack_pointer = state.stack_pointer
           /\ state'.index = state.index
           /\ state'.screen.inner = state.screen.inner]_vars

\* 3126 has run with V1 = 0x26 and has skipped; 9220 has run and has not
C25_Witness ==
    /\ panic = "none"
    /\ \/ opcode = 12582 /\ state.registers[1] = 38 /\ state.pc = PROGRAM_START + 4
       \/ opcode = 37408 /\ state.pc = PROGRAM_START + 2

\* the State is the one State::new leaves for the program image P
CreatedFrom(P) ==
    LET program == PROGRAM_START .. PROGRAM_START + Len(P) - 1
        font == FONT_START .. FONT_START + Len(font_STANDARD) - 1
    IN /\ \A a \in program : ram_at(state.ram, a) = P[a - PROGRAM_START + 1]
       /\ \A a \in font : ram_at(state.ram, a) = font_STANDARD[a - FONT_START + 1]
       /\ \A a \in (0 .. RAM_SIZE - 1) \ (program \cup font) : ram_at(state.ram, a) = 0
       /\ state.pc = 512
       /\ state.index = 0
       /\ state.stack_pointer = 0
       /\ \A r \in Registers : state.registers[r] = 0
       /\ state.delay_timer = 0 /\ state.sound_timer = 0
       /\ \A y \in Rows : state.screen.inner[y] = {}

\* C26: right after the machine is created from a program image P the
\* program counter is 0x200, the index register, the stack pointer, the 16
\* registers and the two timers are 0, every pixel is unset, memory byte
\* 0x200 + i is P[i], the font is in memory from 0x50, every other byte is 0.
C26_CreationLoadsFontAndProgram ==
    (host.call = "new" /\ counter = 0) => CreatedFrom(host.args[1])

\* a machine just created from the three bytes 00 E0 12
C26_Witness ==
    /\ host.call = "new"
    /\ host.args = << <<0, 224, 18>> >>
    /\ counter = 0
    /\ CreatedFrom(<<0, 224, 18>>)

\* the flag an 8XYn instruction reports for the operand values a (left) and
\* b (right), the shifts working on the value shifted
AluFlag(n, a, b, shifted) ==
    CASE n = 4 -> IF a + b > 255 THEN 1 ELSE 0
      [] n = 5 -> IF a >= b THEN 1 ELSE 0
      [] n = 7 -> IF b >= a THEN 1 ELSE 0
      [] n = 6 -> shifted % 2
      [] OTHER -> shifted \div 128

\* C27: when the left register of Add, Sub, SubN, ShiftRight or ShiftLeft
\* (8XY4, 8XY5, 8XY7, 8XY6, 8XYE) is register 15, the flag is written after
\* the result: register 15 ends up holding the flag, 0 or 1.
C27_FlagWrittenAfterResult ==
    [][(/\ FetchingStep
        /\ get_first_nibble(WordAtPc) = 8
        /\ get_n(WordAtPc) \in {4, 5, 6, 7, 14}
        /\ get_x(WordAtPc) = VF)
        => LET a == state.registers[VF]
               b == state.registers[get_y(WordAtPc)]
               shifted == IF instruction_set = make_legacy_set THEN b ELSE a
           IN /\ panic' = "none"
              /\ state'.registers[VF] = AluFlag(get_n(WordAtPc), a, b, shifted)]_vars

\* C28: under the legacy set 8XY6 leaves Vy div 2 in Vx and 8XYE leaves
\* (2 * Vy) mod 256, Vy being the value before the instruction; Vy is not
\* changed when Y is not X, and register 15 holds the bit shifted out of Vy:
\* bit 0 for 8XY6, bit 7 for 8XYE.
C28_LegacyShiftsShiftRightOperand ==
    [][((AluStep(6) \/ AluStep(14)) /\ instruction_set = make_legacy_set)
        => LET b == state.registers[get_y(WordAtPc)]
               y == get_y(WordAtPc)
               n == get_n(WordAtPc)
           IN /\ panic' = "none"
              /\ state'.registers[get_x(WordAtPc)]
                    = IF n = 6 THEN b \div 2 ELSE (2 * b) % 256
              /\ y \notin {get_x(WordAtPc), VF}
                    => state'.registers[y] = b
              /\ state'.registers[VF] = AluFlag(n, b, b, b)]_vars

\* C29: a cycle decrements the two timers by 1 each, stopping at 0, exactly
\* when the counter it has incremented is a multiple of
\* max(frequency_hz div 60, 1), and leaves them as they were otherwise; the
\* decrement comes before the instruction runs, so it is there when the
\* instruction fails; below 120 Hz every cycle decrements.
C29_TimersTickOnCounterMultiples ==
    [][CycleStep
        => LET quotient == frequency_hz \div 60
               modulus == IF quotient > 1 THEN quotient ELSE 1
               ticks == (counter + 1) % modulus = 0
               after(t) == IF ticks /\ t > 0 THEN t - 1 ELSE t
           IN /\ state'.delay_timer = after(state.delay_timer)
              /\ state'.sound_timer = after(state.sound_timer)
              /\ frequency_hz < 120 => ticks]_vars

\* at 200 Hz the third cycle has decremented the timers the host had set
\* and has then failed on the unknown word 8008
C29_Witness ==
    /\ frequency_hz = 200
    /\ counter = 3
    /\ panic # "none"
    /\ state.delay_timer = 254
    /\ state.sound_timer = 1


\* the word at the program counter is ClearScreen (00E0) or a Draw (DXYN)
ScreenWriterIsNext ==
    WordAtPc = 224 \/ get_first_nibble(WordAtPc) = 13

\* C31: the changed flag is per cycle: a cycle clears it before its
\* instruction runs, so after a cycle it is set only if the instruction of
\* that cycle was ClearScreen or Draw; it is set after a ClearScreen and
\* after a Draw of height 1 or more that completes; a flag an earlier cycle
\* set is never seen after a later one.
C31_ChangedFlagIsPerCycle ==
    [][CycleStep
        => /\ is_changed(state'.screen) => (FetchingStep /\ ScreenWriterIsNext)
           /\ (/\ FetchingStep
               /\ panic' = "none"
               /\ \/ WordAtPc = 224
                  \/ get_first_nibble(WordAtPc) = 13 /\ get_n(WordAtPc) >= 1)
                => is_changed(state'.screen)]_vars

\* the program D012 1200 has drawn and then jumped: the flag the Draw set is
\* cleared after the jump
C31_Witness ==
    /\ panic = "none"
    /\ counter = 2
    /\ opcode = 4608
    /\ ram_at(state.ram, PROGRAM_START) = 208
    /\ ram_at(state.ram, PROGRAM_START + 1) = 18
    /\ ~is_changed(state.screen)

\* C32: in every reachable state the stack pointer is in 0 .. 16 and is the
\* number of Calls executed less the number of Returns executed, and the
\* slots below it hold the return addresses of the Calls not yet returned
\* from, the oldest in slot 0.
C32_StackHoldsOpenCalls ==
    /\ state.stack_pointer \in 0 .. STACK_SIZE
    /\ state.stack_pointer = Len(call_log)
    /\ \A i \in 1 .. Len(call_log) :
          i - 1 \in StackSlots => state.stack[i - 1] = call_log[i].return_to

=============================================================================
